---------------------------- MODULE Spec2Model ----------------------------
(***************************************************************************)
(* A model of minifylet (src/minifylet/cli.py): the bookmarklet encoder    *)
(* minify_code, the syntax validator check_syntax, the clipboard helper    *)
(* copy_to_clipboard and the orchestration minify_bookmarklet.             *)
(*                                                                         *)
(* Text is a sequence of characters; a character is a one-character        *)
(* string, except the non-ASCII character U+00E9, which is written         *)
(* "U+00E9", and the Unicode replacement character, written "U+FFFD".      *)
(***************************************************************************)
EXTENDS Integers, Sequences, FiniteSets, TLC

VARIABLES
    pc,             \* position of the running call
    js_code,        \* the source text (minify_code's js_code)
    wrap,           \* the wrap flag
    minified,       \* minify_code: the local variable `minified`
    bookmarklet,    \* the bookmarklet string (minify_code's return value)
    check_js,       \* minify_bookmarklet: validate with node
    to_clipboard,   \* minify_bookmarklet: copy to the clipboard
    input_text,     \* the content of the input file
    platform,       \* sys.platform
    tools,          \* the programs shutil.which finds
    read_result,    \* reading the input: "none", "ok" or the exception
    code_to_check,  \* minify_bookmarklet: the text handed to check_syntax
    tmp_created,    \* check_syntax: a temporary file was created
    tmp_exists,     \* check_syntax: the temporary file is on disk
    syntax_result,  \* check_syntax: "none", "True", "False" or "raised"
    out_opened,     \* the output file was opened for writing
    out_file,       \* the texts written to the output file
    write_result,   \* writing the output: "none", "ok" or "Exception"
    clip_called,    \* copy_to_clipboard was called
    clip_result,    \* copy_to_clipboard: "none", "True" or "False"
    tools_run,      \* the clipboard commands handed to subprocess.run
    clipboard,      \* the texts copied to the clipboard
    stdout,         \* the bookmarklets printed to standard output
    errors,         \* the number of logger.error calls
    warnings,       \* the number of logger.warning calls
    exit_status     \* "none", or the argument of sys.exit

vars == <<pc, js_code, wrap, minified, bookmarklet, check_js, to_clipboard,
          input_text, platform, tools, read_result, code_to_check, tmp_created,
          tmp_exists, syntax_result, out_opened, out_file, write_result,
          clip_called, clip_result, tools_run, clipboard, stdout, errors,
          warnings, exit_status>>

\* What minify_code never touches.
ioVars == <<check_js, to_clipboard, input_text, platform, tools, read_result,
            code_to_check, tmp_created, tmp_exists, syntax_result, out_opened,
            out_file, write_result, clip_called, clip_result, tools_run,
            clipboard, stdout, errors, warnings, exit_status>>

(***************************************************************************)
(* Bounds of the model.                                                    *)
(***************************************************************************)
\* The longest free part of a source text.
MaxLen == 3
\* The longest text after the closing of a leading block comment, and the
\* longest trailing single-line comment.
MaxTail == 1

(***************************************************************************)
(* Characters.                                                             *)
(***************************************************************************)
NonAscii == "U+00E9"
Replacement == "U+FFFD"

\* Printable ASCII, code points 32..126, in order. The quotation mark, the
\* backslash and the grave accent are written by their code points.
Ascii ==
    << " ", "!", "U+0022", "#", "$", "%", "&", "'", "(", ")", "*", "+", ",", "-",
       ".", "/", "0", "1", "2", "3", "4", "5", "6", "7", "8", "9", ":", ";",
       "<", "=", ">", "?", "@", "A", "B", "C", "D", "E", "F", "G", "H", "I",
       "J", "K", "L", "M", "N", "O", "P", "Q", "R", "S", "T", "U", "V", "W",
       "X", "Y", "Z", "[", "U+005C", "]", "^", "_", "U+0060", "a", "b", "c", "d", "e",
       "f", "g", "h", "i", "j", "k", "l", "m", "n", "o", "p", "q", "r", "s",
       "t", "u", "v", "w", "x", "y", "z", "{", "|", "}", "~" >>

\* chr(b) for a byte below 128: printable ASCII and the control characters
\* the model writes; another control character is out of the model's
\* alphabet and is shown as the replacement character.
Chr(b) ==
    IF b \in 32..126 THEN Ascii[b - 31]
    ELSE IF b = 9 THEN "\t"
    ELSE IF b = 10 THEN "\n"
    ELSE IF b = 13 THEN "\r"
    ELSE Replacement

\* The UTF-8 bytes of a character (str.encode in urllib.parse.quote).
Utf8(c) ==
    IF c = NonAscii THEN <<195, 169>>
    ELSE IF c = Replacement THEN <<239, 191, 189>>
    ELSE IF c = "\t" THEN <<9>>
    ELSE IF c = "\n" THEN <<10>>
    ELSE IF c = "\r" THEN <<13>>
    ELSE <<31 + CHOOSE i \in 1..Len(Ascii) : Ascii[i] = c>>

\* Python's str.isspace / the regex class \s, on the model's characters.
IsSpace(c) == c \in {" ", "\t", "\n", "\r"}

StartsWith(s, p) == Len(s) >= Len(p) /\ SubSeq(s, 1, Len(p)) = p

\* s[i:], Python's slice from the 0-based index i.
SliceFrom(s, i) == SubSeq(s, i + 1, Len(s))

\* The literal "javascript:".
JsPrefix == <<"j", "a", "v", "a", "s", "c", "r", "i", "p", "t", ":">>

\* The literals of the wrapper f"void((function(){{{minified}}})())".
WrapOpen ==
    <<"v", "o", "i", "d", "(", "(", "f", "u", "n", "c", "t", "i", "o", "n",
      "(", ")", "{">>
WrapClose == <<"}", ")", "(", ")", ")">>

(***************************************************************************)
(* minify_code: the regular-expression substitutions.  re.sub scans the    *)
(* text once from the left; where the pattern matches it writes the        *)
(* replacement and goes on after the match, elsewhere it copies one        *)
(* character.                                                              *)
(***************************************************************************)
\* The first index from i on that holds a line break, or Len(s) + 1.
RECURSIVE EndOfLine(_, _)
EndOfLine(s, i) ==
    IF i > Len(s) \/ s[i] = "\n" THEN i ELSE EndOfLine(s, i + 1)

\* (?<!:)// matches at i.
LineCommentAt(s, i) ==
    /\ i + 1 <= Len(s)
    /\ s[i] = "/"
    /\ s[i + 1] = "/"
    /\ (i = 1 \/ s[i - 1] # ":")

RECURSIVE LineCommentScan(_, _)
LineCommentScan(s, i) ==
    IF i > Len(s) THEN <<>>
    ELSE IF LineCommentAt(s, i) THEN LineCommentScan(s, EndOfLine(s, i))
    ELSE <<s[i]>> \o LineCommentScan(s, i + 1)

RECURSIVE LineCommentScanNoLookbehind(_, _)
LineCommentScanNoLookbehind(s, i) ==
    IF i > Len(s) THEN <<>>
    ELSE IF i + 1 <= Len(s) /\ s[i] = "/" /\ s[i + 1] = "/"
         THEN LineCommentScanNoLookbehind(s, EndOfLine(s, i))
    ELSE <<s[i]>> \o LineCommentScanNoLookbehind(s, i + 1)

\* The substitution without its lookbehind: re.sub(r"//.*", "", s).
StripLineCommentsNoLookbehind(s) == LineCommentScanNoLookbehind(s, 1)

\* re.sub(r"(?<!:)//.*", "", s)
StripLineComments(s) == LineCommentScan(s, 1)

\* The indices j >= i + 2 at which "*/" stands.
BlockEnds(s, i) ==
    {j \in (i + 2)..(Len(s) - 1) : s[j] = "*" /\ s[j + 1] = "/"}

\* /\*[\s\S]*?\*/ matches at i.
BlockCommentAt(s, i) ==
    /\ i + 1 <= Len(s)
    /\ s[i] = "/"
    /\ s[i + 1] = "*"
    /\ BlockEnds(s, i) # {}

\* The end of the shortest match at i: the index after the first "*/".
BlockCommentEnd(s, i) ==
    2 + CHOOSE j \in BlockEnds(s, i) : \A k \in BlockEnds(s, i) : j <= k

RECURSIVE BlockCommentScan(_, _)
BlockCommentScan(s, i) ==
    IF i > Len(s) THEN <<>>
    ELSE IF BlockCommentAt(s, i) THEN BlockCommentScan(s, BlockCommentEnd(s, i))
    ELSE <<s[i]>> \o BlockCommentScan(s, i + 1)

\* re.sub(r"/\*[\s\S]*?\*/", "", s)
StripBlockComments(s) == BlockCommentScan(s, 1)

\* The first index from i on that holds no whitespace, or Len(s) + 1.
RECURSIVE SkipSpace(_, _)
SkipSpace(s, i) ==
    IF i > Len(s) \/ ~IsSpace(s[i]) THEN i ELSE SkipSpace(s, i + 1)

RECURSIVE WhitespaceScan(_, _)
WhitespaceScan(s, i) ==
    IF i > Len(s) THEN <<>>
    ELSE IF IsSpace(s[i]) THEN <<" ">> \o WhitespaceScan(s, SkipSpace(s, i))
    ELSE <<s[i]>> \o WhitespaceScan(s, i + 1)

RECURSIVE SpaceRunScan(_, _)
SpaceRunScan(s, i) ==
    IF i > Len(s) THEN <<>>
    ELSE IF s[i] = " " /\ i < Len(s) /\ s[i + 1] = " " THEN SpaceRunScan(s, i + 1)
    ELSE <<s[i]>> \o SpaceRunScan(s, i + 1)

\* The substitution with a space for the class \s: re.sub(r" +", " ", s).
CollapseSpacesOnly(s) == SpaceRunScan(s, 1)

\* re.sub(r"\s+", " ", s)
CollapseWhitespace(s) == WhitespaceScan(s, 1)

\* The class [\{\}\(\)\[\]\=\+\-\*\/\;\:\,\<\>].
Structural ==
    {"{", "}", "(", ")", "[", "]", "=", "+", "-", "*", "/", ";", ":", ",",
     "<", ">"}

\* \s*([...])\s* matches at i: after the whitespace from i on stands a
\* structural character (whitespace is not structural, so \s* never has to
\* give a character back).
StructuralAt(s, i) ==
    /\ SkipSpace(s, i) <= Len(s)
    /\ s[SkipSpace(s, i)] \in Structural

RECURSIVE StructuralScan(_, _)
StructuralScan(s, i) ==
    IF i > Len(s) THEN <<>>
    ELSE IF StructuralAt(s, i)
         THEN <<s[SkipSpace(s, i)]>>
              \o StructuralScan(s, SkipSpace(s, SkipSpace(s, i) + 1))
    ELSE <<s[i]>> \o StructuralScan(s, i + 1)

RECURSIVE StructuralScanLeading(_, _)
StructuralScanLeading(s, i) ==
    IF i > Len(s) THEN <<>>
    ELSE IF StructuralAt(s, i)
         THEN <<s[SkipSpace(s, i)]>> \o StructuralScanLeading(s, SkipSpace(s, i) + 1)
    ELSE <<s[i]>> \o StructuralScanLeading(s, i + 1)

\* The substitution without its trailing \s*.
StripBeforeStructural(s) == StructuralScanLeading(s, 1)

\* re.sub(r"\s*([\{\}\(\)\[\]\=\+\-\*\/\;\:\,\<\>])\s*", r"\1", s)
StripAroundStructural(s) == StructuralScan(s, 1)

\* The last index down from i that holds no whitespace, or 0.
RECURSIVE SkipSpaceBack(_, _)
SkipSpaceBack(s, i) ==
    IF i < 1 \/ ~IsSpace(s[i]) THEN i ELSE SkipSpaceBack(s, i - 1)

\* str.strip()
Strip(s) == SubSeq(s, SkipSpace(s, 1), SkipSpaceBack(s, Len(s)))

\* if minified.startswith("javascript:"): minified = minified[11:]
RemovePrefix(s) == IF StartsWith(s, JsPrefix) THEN SliceFrom(s, 11) ELSE s

\* if wrap: minified = f"void((function(){{{minified}}})())"
Wrap(s, w) == IF w THEN WrapOpen \o s \o WrapClose ELSE s

(***************************************************************************)
(* Percent-encoding: urllib.parse.quote and unquote.                       *)
(***************************************************************************)
\* The safe characters without the exclusion of "#".
SafeCharsWithHash == {Chr(i) : i \in 33..126} \ {"%", " "}

\* SAFE_CHARS: chr(i) for i in range(33, 127), without "%", " " and "#".
SAFE_CHARS == {Chr(i) : i \in 33..126} \ {"%", " ", "#"}

\* urllib.parse's _ALWAYS_SAFE: letters, digits and "_.-~".
AlwaysSafe ==
    {Chr(i) : i \in (48..57) \cup (65..90) \cup (97..122)} \cup {"_", ".", "-", "~"}

HexDigits == <<"0", "1", "2", "3", "4", "5", "6", "7", "8", "9",
               "A", "B", "C", "D", "E", "F">>

\* Quoter.__missing__: chr(b) if b in safe else "%{:02X}".format(b)
QuoteByte(b, safe) ==
    IF b < 128 /\ Chr(b) \in (AlwaysSafe \cup safe)
    THEN <<Chr(b)>>
    ELSE <<"%", HexDigits[(b \div 16) + 1], HexDigits[(b % 16) + 1]>>

RECURSIVE QuoteBytes(_, _)
QuoteBytes(bs, safe) ==
    IF bs = <<>> THEN <<>>
    ELSE QuoteByte(Head(bs), safe) \o QuoteBytes(Tail(bs), safe)

RECURSIVE Quote(_, _)
\* urllib.parse.quote(s, safe=safe): the UTF-8 bytes of s, each quoted.
Quote(s, safe) ==
    IF s = <<>> THEN <<>>
    ELSE QuoteBytes(Utf8(Head(s)), safe) \o Quote(Tail(s), safe)

\* The value of a hexadecimal digit of either case, or -1.
HexVal(c) ==
    IF \E i \in 1..16 : HexDigits[i] = c
    THEN (CHOOSE i \in 1..16 : HexDigits[i] = c) - 1
    ELSE IF c \in {"a", "b", "c", "d", "e", "f"}
    THEN 10 + (CHOOSE i \in 1..6 : <<"a", "b", "c", "d", "e", "f">>[i] = c) - 1
    ELSE -1

\* The byte of the escape %XX at i, or -1 when no escape stands there.
EscapeAt(s, i) ==
    IF i + 2 <= Len(s) /\ s[i] = "%" /\ HexVal(s[i + 1]) >= 0 /\ HexVal(s[i + 2]) >= 0
    THEN 16 * HexVal(s[i + 1]) + HexVal(s[i + 2])
    ELSE -1

RECURSIVE UnquoteScan(_, _)
\* The escapes become bytes and the bytes are decoded as UTF-8 with
\* errors="replace"; of the multi-byte characters the model decodes its own
\* two, another sequence gives the replacement character.
UnquoteScan(s, i) ==
    IF i > Len(s) THEN <<>>
    ELSE IF EscapeAt(s, i) < 0 THEN <<s[i]>> \o UnquoteScan(s, i + 1)
    ELSE IF EscapeAt(s, i) < 128
         THEN <<Chr(EscapeAt(s, i))>> \o UnquoteScan(s, i + 3)
    ELSE IF EscapeAt(s, i) = 195 /\ EscapeAt(s, i + 3) = 169
         THEN <<NonAscii>> \o UnquoteScan(s, i + 6)
    ELSE IF EscapeAt(s, i) = 239 /\ EscapeAt(s, i + 3) = 191
            /\ EscapeAt(s, i + 6) = 189
         THEN <<Replacement>> \o UnquoteScan(s, i + 9)
    ELSE <<Replacement>> \o UnquoteScan(s, i + 3)

\* urllib.parse.unquote(s)
Unquote(s) == UnquoteScan(s, 1)

(***************************************************************************)
(* minify_code, statement by statement.                                    *)
(***************************************************************************)
\* The value of `minified` at the test of startswith (after line 75).
Minified(s) ==
    Strip(StripAroundStructural(CollapseWhitespace(
        StripBlockComments(StripLineComments(s)))))

\* "javascript:" + urllib.parse.quote(minified.strip(), safe=SAFE_CHARS)
Encode(s) == JsPrefix \o Quote(Strip(s), SAFE_CHARS)

minify_code(s, w) == Encode(Wrap(RemovePrefix(Minified(s)), w))

(***************************************************************************)
(* The source texts the model feeds to minify_code.                        *)
(***************************************************************************)
\* The texts over the alphabet A of length at most n.
Str(A, n) == UNION {[1..k -> A] : k \in 0..n}

\* A letter (also a hexadecimal digit), a space, a line break, structural
\* characters that start and end comments, the two ASCII characters that are
\* not safe, and a character outside ASCII.
Alphabet == {"a", " ", "\n", "/", "*", ":", "#", "%", NonAscii}

\* The characters of the texts that hold a block comment.
CommentAlphabet == {"a", "/", "*", "\n"}

\* The characters of a trailing single-line comment: no line break.
TailAlphabet == {"a", "/", "*", ":", " "}

JsWord == <<"j", "a", "v", "a", "s", "c", "r", "i", "p", "t">>
BlockOpen == <<"/", "*">>
BlockClose == <<"*", "/">>

FreeInputs == Str(Alphabet, MaxLen)

\* Texts that begin with the word javascript, directly or after a space.
PrefixInputs ==
    {lead \o JsWord \o x : lead \in {<<>>, <<" ">>}, x \in FreeInputs}

\* Texts that begin with a closed block comment.
CommentInputs ==
    {BlockOpen \o x \o BlockClose \o y :
        x \in Str(CommentAlphabet, MaxLen), y \in Str(CommentAlphabet, MaxTail)}

\* Texts that hold a "//" directly after a colon, as a URL does.
UrlInputs ==
    {p \o <<":", "/", "/">> \o t :
        p \in Str(Alphabet, MaxTail), t \in Str(Alphabet, MaxTail)}

Inputs == FreeInputs \cup PrefixInputs \cup CommentInputs \cup UrlInputs

(***************************************************************************)
(* minify_code as a state machine: one step per statement.                 *)
(***************************************************************************)
IoIdle ==
    /\ read_result = "none"
    /\ code_to_check = <<>>
    /\ tmp_created = FALSE
    /\ tmp_exists = FALSE
    /\ syntax_result = "none"
    /\ out_opened = FALSE
    /\ out_file = <<>>
    /\ write_result = "none"
    /\ clip_called = FALSE
    /\ clip_result = "none"
    /\ tools_run = <<>>
    /\ clipboard = <<>>
    /\ stdout = <<>>
    /\ errors = 0
    /\ warnings = 0
    /\ exit_status = "none"

InitMinify ==
    /\ pc = "line_comments"
    /\ js_code \in Inputs
    /\ wrap \in BOOLEAN
    /\ minified = <<>>
    /\ bookmarklet = <<>>
    /\ check_js = FALSE
    /\ to_clipboard = FALSE
    /\ input_text = <<>>
    /\ platform = "linux"
    /\ tools = {}
    /\ IoIdle

\* line 63
MinifyLineComments ==
    /\ pc = "line_comments"
    /\ minified' = StripLineComments(js_code)
    /\ pc' = "block_comments"
    /\ UNCHANGED <<js_code, wrap, bookmarklet, ioVars>>

\* line 66
MinifyBlockComments ==
    /\ pc = "block_comments"
    /\ minified' = StripBlockComments(minified)
    /\ pc' = "whitespace"
    /\ UNCHANGED <<js_code, wrap, bookmarklet, ioVars>>

\* line 69
MinifyWhitespace ==
    /\ pc = "whitespace"
    /\ minified' = CollapseWhitespace(minified)
    /\ pc' = "structural"
    /\ UNCHANGED <<js_code, wrap, bookmarklet, ioVars>>

\* line 72
MinifyStructural ==
    /\ pc = "structural"
    /\ minified' = StripAroundStructural(minified)
    /\ pc' = "prefix"
    /\ UNCHANGED <<js_code, wrap, bookmarklet, ioVars>>

\* lines 75-77
MinifyPrefix ==
    /\ pc = "prefix"
    /\ minified' = RemovePrefix(Strip(minified))
    /\ pc' = "wrap"
    /\ UNCHANGED <<js_code, wrap, bookmarklet, ioVars>>

\* lines 79-80
MinifyWrap ==
    /\ pc = "wrap"
    /\ minified' = Wrap(minified, wrap)
    /\ pc' = "encode"
    /\ UNCHANGED <<js_code, wrap, bookmarklet, ioVars>>

\* lines 85-86
MinifyEncode ==
    /\ pc = "encode"
    /\ bookmarklet' = Encode(minified)
    /\ pc' = "returned"
    /\ UNCHANGED <<js_code, wrap, minified, ioVars>>

NextMinify ==
    \/ MinifyLineComments
    \/ MinifyBlockComments
    \/ MinifyWhitespace
    \/ MinifyStructural
    \/ MinifyPrefix
    \/ MinifyWrap
    \/ MinifyEncode

SpecMinify == InitMinify /\ [][NextMinify]_vars

(***************************************************************************)
(* minify_bookmarklet, with check_syntax and copy_to_clipboard.            *)
(***************************************************************************)
\* The contents of the input file.
Sources ==
    { <<>>,
      <<"a", ";">>,
      <<"a", " ", "=", " ", "'", "#", "'", ";", " ", "/", "/", " ", "c">>,
      JsPrefix \o <<"a", "(", ")", " ", ";">> }

Platforms == {"darwin", "win32", "linux", "freebsd"}
Programs == {"node", "xclip", "xsel", "wl-copy"}

Init ==
    /\ pc = "mb_read"
    /\ input_text \in Sources
    /\ js_code = <<>>
    /\ wrap \in BOOLEAN
    /\ check_js \in BOOLEAN
    /\ to_clipboard \in BOOLEAN
    /\ platform \in Platforms
    /\ tools \in SUBSET Programs
    /\ minified = <<>>
    /\ bookmarklet = <<>>
    /\ IoIdle

\* lines 162-164 and 165-167: logger.error, sys.exit(1)
ErrorExit ==
    /\ errors' = errors + 1
    /\ exit_status' = "1"
    /\ pc' = "exited"

\* lines 127-129: the file is read
ReadInput ==
    /\ pc = "mb_read"
    /\ read_result' = "ok"
    /\ js_code' = input_text
    /\ pc' = "mb_minify"
    /\ UNCHANGED <<wrap, minified, bookmarklet, check_js, to_clipboard,
                   input_text, platform, tools, code_to_check, tmp_created,
                   tmp_exists, syntax_result, out_opened, out_file,
                   write_result, clip_called, clip_result, tools_run,
                   clipboard, stdout, errors, warnings, exit_status>>

\* lines 128, 162-164: open raises FileNotFoundError
ReadInputNotFound ==
    /\ pc = "mb_read"
    /\ read_result' = "FileNotFoundError"
    /\ ErrorExit
    /\ UNCHANGED <<js_code, wrap, minified, bookmarklet, check_js,
                   to_clipboard, input_text, platform, tools, code_to_check,
                   tmp_created, tmp_exists, syntax_result, out_opened,
                   out_file, write_result, clip_called, clip_result,
                   tools_run, clipboard, stdout, warnings>>

\* lines 128-129, 165-167: open or read raises another exception
ReadInputError ==
    /\ pc = "mb_read"
    /\ read_result' = "Exception"
    /\ ErrorExit
    /\ UNCHANGED <<js_code, wrap, minified, bookmarklet, check_js,
                   to_clipboard, input_text, platform, tools, code_to_check,
                   tmp_created, tmp_exists, syntax_result, out_opened,
                   out_file, write_result, clip_called, clip_result,
                   tools_run, clipboard, stdout, warnings>>

\* lines 135-138
CodeToCheck(b) == IF StartsWith(b, JsPrefix) THEN Unquote(SliceFrom(b, 11)) ELSE b

\* lines 131-138: the call of minify_code and, for the check, the decoding
MinifyCall ==
    /\ pc = "mb_minify"
    /\ bookmarklet' = minify_code(js_code, wrap)
    /\ code_to_check' = IF check_js THEN CodeToCheck(bookmarklet') ELSE code_to_check
    /\ pc' = IF check_js THEN "cs_which" ELSE "mb_write"
    /\ UNCHANGED <<js_code, wrap, minified, check_js, to_clipboard, input_text,
                   platform, tools, read_result, tmp_created, tmp_exists,
                   syntax_result, out_opened, out_file, write_result,
                   clip_called, clip_result, tools_run, clipboard, stdout,
                   errors, warnings, exit_status>>

\* lines 38-40: node is not installed
CheckSyntaxNoNode ==
    /\ pc = "cs_which"
    /\ "node" \notin tools
    /\ errors' = errors + 1
    /\ syntax_result' = "False"
    /\ pc' = "mb_gate"
    /\ UNCHANGED <<js_code, wrap, minified, bookmarklet, check_js,
                   to_clipboard, input_text, platform, tools, read_result,
                   code_to_check, tmp_created, tmp_exists, out_opened,
                   out_file, write_result, clip_called, clip_result,
                   tools_run, clipboard, stdout, warnings, exit_status>>

\* lines 42-44: the temporary file is created (delete=False), written and
\* closed
CheckSyntaxWriteTemp ==
    /\ pc = "cs_which"
    /\ "node" \in tools
    /\ tmp_created' = TRUE
    /\ tmp_exists' = TRUE
    /\ pc' = "cs_run"
    /\ UNCHANGED <<js_code, wrap, minified, bookmarklet, check_js,
                   to_clipboard, input_text, platform, tools, read_result,
                   code_to_check, syntax_result, out_opened, out_file,
                   write_result, clip_called, clip_result, tools_run,
                   clipboard, stdout, errors, warnings, exit_status>>

\* lines 42-44, 165-167: the file is created, and tmp.write or the flush of
\* the close raises (the disk is full, a character has no encoding); the
\* with statement closes the file and, as delete=False, leaves it; the
\* exception leaves check_syntax before its try and is caught at line 165
CheckSyntaxWriteTempFails ==
    /\ pc = "cs_which"
    /\ "node" \in tools
    /\ tmp_created' = TRUE
    /\ tmp_exists' = TRUE
    /\ syntax_result' = "raised"
    /\ ErrorExit
    /\ UNCHANGED <<js_code, wrap, minified, bookmarklet, check_js,
                   to_clipboard, input_text, platform, tools, read_result,
                   code_to_check, out_opened, out_file, write_result,
                   clip_called, clip_result, tools_run, clipboard, stdout,
                   warnings>>

\* lines 46-48, 52-54: node accepts the code; finally removes the file
CheckSyntaxNodeAccepts ==
    /\ pc = "cs_run"
    /\ syntax_result' = "True"
    /\ tmp_exists' = FALSE
    /\ pc' = "mb_gate"
    /\ UNCHANGED <<js_code, wrap, minified, bookmarklet, check_js,
                   to_clipboard, input_text, platform, tools, read_result,
                   code_to_check, tmp_created, out_opened, out_file,
                   write_result, clip_called, clip_result, tools_run,
                   clipboard, stdout, errors, warnings, exit_status>>

\* lines 47, 49-54: node exits non-zero (CalledProcessError); finally
\* removes the file
CheckSyntaxNodeRejects ==
    /\ pc = "cs_run"
    /\ errors' = errors + 1
    /\ syntax_result' = "False"
    /\ tmp_exists' = FALSE
    /\ pc' = "mb_gate"
    /\ UNCHANGED <<js_code, wrap, minified, bookmarklet, check_js,
                   to_clipboard, input_text, platform, tools, read_result,
                   code_to_check, tmp_created, out_opened, out_file,
                   write_result, clip_called, clip_result, tools_run,
                   clipboard, stdout, warnings, exit_status>>

\* lines 47, 52-54, 165-167: subprocess.run raises another exception;
\* finally removes the file and the exception is caught at line 165
CheckSyntaxNodeRaises ==
    /\ pc = "cs_run"
    /\ syntax_result' = "raised"
    /\ tmp_exists' = FALSE
    /\ ErrorExit
    /\ UNCHANGED <<js_code, wrap, minified, bookmarklet, check_js,
                   to_clipboard, input_text, platform, tools, read_result,
                   code_to_check, tmp_created, out_opened, out_file,
                   write_result, clip_called, clip_result, tools_run,
                   clipboard, stdout, warnings>>

\* The gate as it would be if sys.exit(1) did not end the run.
ValidationFailedContinues ==
    /\ pc = "mb_gate"
    /\ syntax_result = "False"
    /\ pc' = "mb_write"
    /\ UNCHANGED <<js_code, wrap, minified, bookmarklet, check_js,
                   to_clipboard, input_text, platform, tools, read_result,
                   code_to_check, tmp_created, tmp_exists, syntax_result,
                   out_opened, out_file, write_result, clip_called,
                   clip_result, tools_run, clipboard, stdout, errors,
                   warnings, exit_status>>

\* lines 140-141: check_syntax returned False; sys.exit(1) raises
\* SystemExit, which except Exception does not catch
ValidationFailedExit ==
    /\ pc = "mb_gate"
    /\ syntax_result = "False"
    /\ exit_status' = "1"
    /\ pc' = "exited"
    /\ UNCHANGED <<js_code, wrap, minified, bookmarklet, check_js,
                   to_clipboard, input_text, platform, tools, read_result,
                   code_to_check, tmp_created, tmp_exists, syntax_result,
                   out_opened, out_file, write_result, clip_called,
                   clip_result, tools_run, clipboard, stdout, errors,
                   warnings>>

\* line 140: check_syntax returned True
ValidationPassed ==
    /\ pc = "mb_gate"
    /\ syntax_result = "True"
    /\ pc' = "mb_write"
    /\ UNCHANGED <<js_code, wrap, minified, bookmarklet, check_js,
                   to_clipboard, input_text, platform, tools, read_result,
                   code_to_check, tmp_created, tmp_exists, syntax_result,
                   out_opened, out_file, write_result, clip_called,
                   clip_result, tools_run, clipboard, stdout, errors,
                   warnings, exit_status>>

\* lines 143-147: the output file is opened and written
WriteOutput ==
    /\ pc = "mb_write"
    /\ out_opened' = TRUE
    /\ out_file' = Append(out_file, bookmarklet)
    /\ write_result' = "ok"
    /\ pc' = IF to_clipboard THEN "mb_clip" ELSE "mb_print"
    /\ UNCHANGED <<js_code, wrap, minified, bookmarklet, check_js,
                   to_clipboard, input_text, platform, tools, read_result,
                   code_to_check, tmp_created, tmp_exists, syntax_result,
                   clip_called, clip_result, tools_run, clipboard, stdout,
                   errors, warnings, exit_status>>

\* The failed write as it would be if the exception were swallowed.
WriteOutputFailsSilently ==
    /\ pc = "mb_write"
    /\ \E opened \in BOOLEAN : out_opened' = opened
    /\ write_result' = "Exception"
    /\ pc' = IF to_clipboard THEN "mb_clip" ELSE "mb_print"
    /\ UNCHANGED <<js_code, wrap, minified, bookmarklet, check_js,
                   to_clipboard, input_text, platform, tools, read_result,
                   code_to_check, tmp_created, tmp_exists, syntax_result,
                   out_file, clip_called, clip_result, tools_run, clipboard,
                   stdout, errors, warnings, exit_status>>

\* lines 144-145, 162-167: open raises (the file is not opened) or write
\* raises (it is)
WriteOutputFails ==
    /\ pc = "mb_write"
    /\ \E opened \in BOOLEAN : out_opened' = opened
    /\ write_result' = "Exception"
    /\ ErrorExit
    /\ UNCHANGED <<js_code, wrap, minified, bookmarklet, check_js,
                   to_clipboard, input_text, platform, tools, read_result,
                   code_to_check, tmp_created, tmp_exists, syntax_result,
                   out_file, clip_called, clip_result, tools_run, clipboard,
                   stdout, warnings>>

\* lines 94-119: the command copy_to_clipboard hands to subprocess.run, or
\* "none"
ClipboardTool(plat, found) ==
    IF plat = "darwin" THEN "pbcopy"
    ELSE IF plat = "win32" THEN "clip"
    ELSE IF plat = "linux"
         THEN IF "xclip" \in found THEN "xclip"
              ELSE IF "xsel" \in found THEN "xsel"
              ELSE IF "wl-copy" \in found THEN "wl-copy"
              ELSE "none"
    ELSE "none"

\* lines 149-151, 93-119: the command runs and copy_to_clipboard returns True
CopyToClipboardOk ==
    /\ pc = "mb_clip"
    /\ ClipboardTool(platform, tools) # "none"
    /\ clip_called' = TRUE
    /\ tools_run' = Append(tools_run, ClipboardTool(platform, tools))
    /\ clipboard' = Append(clipboard, bookmarklet)
    /\ clip_result' = "True"
    /\ pc' = "mb_print"
    /\ UNCHANGED <<js_code, wrap, minified, bookmarklet, check_js,
                   to_clipboard, input_text, platform, tools, read_result,
                   code_to_check, tmp_created, tmp_exists, syntax_result,
                   out_opened, out_file, write_result, stdout, errors,
                   warnings, exit_status>>

\* The failed copy as it would be if the exception left copy_to_clipboard.
CopyToClipboardPropagates ==
    /\ pc = "mb_clip"
    /\ ClipboardTool(platform, tools) # "none"
    /\ clip_called' = TRUE
    /\ tools_run' = Append(tools_run, ClipboardTool(platform, tools))
    /\ clip_result' = "False"
    /\ ErrorExit
    /\ UNCHANGED <<js_code, wrap, minified, bookmarklet, check_js,
                   to_clipboard, input_text, platform, tools, read_result,
                   code_to_check, tmp_created, tmp_exists, syntax_result,
                   out_opened, out_file, write_result, clipboard, stdout,
                   warnings>>

\* lines 93-122, 152-155: subprocess.run raises; the exception is caught and
\* logged as a warning, copy_to_clipboard returns False, and
\* minify_bookmarklet logs its own warning
CopyToClipboardRaises ==
    /\ pc = "mb_clip"
    /\ ClipboardTool(platform, tools) # "none"
    /\ clip_called' = TRUE
    /\ tools_run' = Append(tools_run, ClipboardTool(platform, tools))
    /\ clip_result' = "False"
    /\ warnings' = warnings + 2
    /\ pc' = "mb_print"
    /\ UNCHANGED <<js_code, wrap, minified, bookmarklet, check_js,
                   to_clipboard, input_text, platform, tools, read_result,
                   code_to_check, tmp_created, tmp_exists, syntax_result,
                   out_opened, out_file, write_result, clipboard, stdout,
                   errors, exit_status>>

\* lines 94-122, 152-155: no branch runs a command; copy_to_clipboard
\* returns False and minify_bookmarklet logs a warning
CopyToClipboardNoTool ==
    /\ pc = "mb_clip"
    /\ ClipboardTool(platform, tools) = "none"
    /\ clip_called' = TRUE
    /\ clip_result' = "False"
    /\ warnings' = warnings + 1
    /\ pc' = "mb_print"
    /\ UNCHANGED <<js_code, wrap, minified, bookmarklet, check_js,
                   to_clipboard, input_text, platform, tools, read_result,
                   code_to_check, tmp_created, tmp_exists, syntax_result,
                   out_opened, out_file, write_result, tools_run, clipboard,
                   stdout, errors, exit_status>>

\* lines 157-160: the bookmarklet is printed and minify_bookmarklet returns
PrintBookmarklet ==
    /\ pc = "mb_print"
    /\ stdout' = Append(stdout, bookmarklet)
    /\ pc' = "mb_returned"
    /\ UNCHANGED <<js_code, wrap, minified, bookmarklet, check_js,
                   to_clipboard, input_text, platform, tools, read_result,
                   code_to_check, tmp_created, tmp_exists, syntax_result,
                   out_opened, out_file, write_result, clip_called,
                   clip_result, tools_run, clipboard, errors, warnings,
                   exit_status>>

Next ==
    \/ ReadInput
    \/ ReadInputNotFound
    \/ ReadInputError
    \/ MinifyCall
    \/ CheckSyntaxNoNode
    \/ CheckSyntaxWriteTemp
    \/ CheckSyntaxWriteTempFails
    \/ CheckSyntaxNodeAccepts
    \/ CheckSyntaxNodeRejects
    \/ CheckSyntaxNodeRaises
    \/ ValidationFailedExit
    \/ ValidationPassed
    \/ WriteOutput
    \/ WriteOutputFails
    \/ CopyToClipboardOk
    \/ CopyToClipboardRaises
    \/ CopyToClipboardNoTool
    \/ PrintBookmarklet

Spec == Init /\ [][Next]_vars


(***************************************************************************)
(* Properties of minify_code, checked under SpecMinify.                    *)
(***************************************************************************)
Returned == pc = "returned"

\* bookmarklet[11:], and what check and test decode from it.
Body(b) == SliceFrom(b, 11)
DecodedBody(b) == Unquote(Body(b))

Contains(hay, needle) ==
    \E i \in 0..(Len(hay) - Len(needle)) :
        SubSeq(hay, i + 1, i + Len(needle)) = needle

\* Some "//" or "/*" stands in s.
HasCommentStart(s) ==
    \E i \in 1..(Len(s) - 1) : s[i] = "/" /\ s[i + 1] \in {"/", "*"}

\* C1: for every text X whose minified form does not start with
\* "javascript:" and for both values of wrap,
\* minify_code("javascript:" + X, wrap) = minify_code(X, wrap).
C1_PrefixIdempotence ==
    (Returned /\ ~StartsWith(Minified(js_code), JsPrefix))
        => minify_code(JsPrefix \o js_code, wrap) = bookmarklet

\* C2: the result with wrap, its prefix removed and percent-decoded, is
\* "void((function(){" + B + "})())", B being the result without wrap, its
\* prefix removed and percent-decoded.
C2_WrapProperty ==
    (Returned /\ wrap)
        => /\ StartsWith(bookmarklet, JsPrefix)
           /\ StartsWith(minify_code(js_code, FALSE), JsPrefix)
           /\ DecodedBody(bookmarklet)
                = WrapOpen \o DecodedBody(minify_code(js_code, FALSE)) \o WrapClose

\* C2's case: a wrapped result of a text whose "javascript:" prefix was
\* removed and in which whitespace followed the colon.
C2_Witness ==
    /\ Returned
    /\ wrap
    /\ StartsWith(Minified(js_code), JsPrefix)
    /\ \E i \in 2..Len(js_code) : js_code[i - 1] = ":" /\ IsSpace(js_code[i])
    /\ Len(DecodedBody(bookmarklet)) > Len(WrapOpen) + Len(WrapClose)

\* The characters the claim calls safe: ASCII 33..126 except "%" and "#".
LiteralChars == {Chr(i) : i \in 33..126} \ {"%", "#"}

IsEscape(r) ==
    /\ Len(r) = 3
    /\ r[1] = "%"
    /\ \E i \in 1..16 : HexDigits[i] = r[2]
    /\ \E i \in 1..16 : HexDigits[i] = r[3]

RECURSIVE EscapedForm(_, _)
\* r is b with each literal character as it is and each other character as
\* one to three %XX escapes that decode to it.
EscapedForm(r, b) ==
    IF b = <<>> THEN r = <<>>
    ELSE IF Head(b) \in LiteralChars
         THEN r # <<>> /\ Head(r) = Head(b) /\ EscapedForm(Tail(r), Tail(b))
    ELSE \E n \in 1..3 :
            /\ Len(r) >= 3 * n
            /\ \A k \in 0..(n - 1) : IsEscape(SubSeq(r, 3 * k + 1, 3 * k + 3))
            /\ Unquote(SubSeq(r, 1, 3 * n)) = <<Head(b)>>
            /\ (Head(b) = "#" => SubSeq(r, 1, 3) = <<"%", "2", "3">>)
            /\ (Head(b) = " " => SubSeq(r, 1, 3) = <<"%", "2", "0">>)
            /\ (Head(b) = "%" => SubSeq(r, 1, 3) = <<"%", "2", "5">>)
            /\ EscapedForm(SubSeq(r, 3 * n + 1, Len(r)), Tail(b))

\* C3: the output is "javascript:" and the minified body with each safe
\* character literal and every other character as %XX escapes; after the
\* prefix stands no space and no "#", and every "%" starts an escape.
C3_Escaping ==
    Returned
        => /\ StartsWith(bookmarklet, JsPrefix)
           /\ EscapedForm(Body(bookmarklet), Strip(minified))
           /\ \A i \in 1..Len(Body(bookmarklet)) :
                /\ Body(bookmarklet)[i] \notin {" ", "#"}
                /\ Body(bookmarklet)[i] = "%"
                     => /\ i + 2 <= Len(Body(bookmarklet))
                        /\ IsEscape(SubSeq(Body(bookmarklet), i, i + 2))

\* C3's case: a body that holds a space, a "#" and a "%".
C3_Witness ==
    /\ Returned
    /\ \A c \in {" ", "#", "%"} :
          \E i \in 1..Len(minified) : minified[i] = c
    /\ Len(Body(bookmarklet)) = Len(minified) + 6

TrailingComment(c) == <<" ", "/", "/", " ">> \o c

\* The text from index k to the end of its line.
RestOfLine(s, k) == SubSeq(s, k, EndOfLine(s, k) - 1)

\* A "//" stands at k directly after a colon.
UrlSlashesAt(s, k) ==
    /\ k >= 2
    /\ k + 1 <= Len(s)
    /\ s[k - 1] = ":"
    /\ s[k] = "/"
    /\ s[k + 1] = "/"

\* The first half of C4: a trailing " // c" changes nothing.
TrailingCommentRemoved ==
    (Len(js_code) <= MaxLen /\ ~HasCommentStart(js_code))
        => \A c \in Str(TailAlphabet, MaxTail) :
              minify_code(js_code \o TrailingComment(c), FALSE) = bookmarklet

\* C4 as it was stated: without wrap, a trailing " // c" after a text with no
\* "//" and no "/*" changes nothing, and the text from a "//" that follows a
\* colon to the end of its line stands verbatim in the decoded body.
C4_Original ==
    (Returned /\ ~wrap)
        => /\ TrailingCommentRemoved
           /\ \A k \in 1..Len(js_code) :
                UrlSlashesAt(js_code, k)
                    => Contains(DecodedBody(bookmarklet), RestOfLine(js_code, k))

\* Every "//" of s stands directly after a colon, and s holds no "/*".
OnlyUrlSlashes(s) ==
    \A i \in 1..(Len(s) - 1) :
        /\ ~(s[i] = "/" /\ s[i + 1] = "*")
        /\ (s[i] = "/" /\ s[i + 1] = "/") => (i >= 2 /\ s[i - 1] = ":")

\* C4 as amended: the second half holds when the source holds no "/*", every
\* "//" of the source stands directly after a colon, and the text from the
\* "//" to the end of its line holds no whitespace.
C4_CommentStripping ==
    (Returned /\ ~wrap)
        => /\ TrailingCommentRemoved
           /\ \A k \in 1..Len(js_code) :
                (/\ UrlSlashesAt(js_code, k)
                 /\ OnlyUrlSlashes(js_code)
                 /\ \A i \in 1..Len(RestOfLine(js_code, k)) :
                       ~IsSpace(RestOfLine(js_code, k)[i]))
                    => Contains(DecodedBody(bookmarklet), RestOfLine(js_code, k))

\* C4's case: a "//" after a colon, followed by more text on its line, that
\* the decoded body keeps.
C4_Witness ==
    /\ Returned
    /\ ~wrap
    /\ OnlyUrlSlashes(js_code)
    /\ \E k \in 1..Len(js_code) :
          /\ UrlSlashesAt(js_code, k)
          /\ Len(RestOfLine(js_code, k)) > 2
          /\ \A i \in 1..Len(RestOfLine(js_code, k)) :
                ~IsSpace(RestOfLine(js_code, k)[i])
          /\ Contains(DecodedBody(bookmarklet), RestOfLine(js_code, k))

\* C5: without wrap the decoded body has no whitespace at its ends, no
\* whitespace but single spaces, and no space next to a structural
\* character; and the structural substitution, applied again to its own
\* result, changes nothing.
C5_WhitespaceNormalForm ==
    /\ (Returned /\ ~wrap)
          => LET b == DecodedBody(bookmarklet) IN
             /\ b = Strip(b)
             /\ \A i \in 1..Len(b) : IsSpace(b[i]) => b[i] = " "
             /\ \A i \in 1..(Len(b) - 1) :
                   /\ ~(b[i] = " " /\ b[i + 1] = " ")
                   /\ ~(b[i] = " " /\ b[i + 1] \in Structural)
                   /\ ~(b[i] \in Structural /\ b[i + 1] = " ")
    /\ pc = "prefix" => StripAroundStructural(minified) = minified

\* C5's case: a source in which whitespace stands between two structural
\* characters, so that the matches of the one pass are adjacent.
C5_Witness ==
    /\ Returned
    /\ ~wrap
    /\ \E i \in 2..(Len(js_code) - 1) :
          /\ IsSpace(js_code[i])
          /\ js_code[i - 1] \in Structural
          /\ js_code[i + 1] \in Structural
    /\ Len(DecodedBody(bookmarklet)) >= 2

\* Each "/*" of s is closed by a later "*/".
AllBlocksClosed(s) ==
    \A i \in 1..(Len(s) - 1) :
        (s[i] = "/" /\ s[i + 1] = "*") => BlockEnds(s, i) # {}

\* C10: when each "/*" is closed by a later "*/", minify_code gives the same
\* result for the source and for the source with every shortest
\* "/* ... */" span deleted beforehand.
C10_BlockCommentContentIrrelevant ==
    (Returned /\ AllBlocksClosed(js_code))
        => bookmarklet = minify_code(StripBlockComments(js_code), wrap)

(***************************************************************************)
(* Properties of minify_bookmarklet, checked under Spec.                   *)
(***************************************************************************)
NothingDelivered ==
    /\ ~out_opened
    /\ out_file = <<>>
    /\ ~clip_called
    /\ clipboard = <<>>
    /\ tools_run = <<>>
    /\ stdout = <<>>

\* C6: when check_js is true and check_syntax returns False, the run ends
\* with exit status 1 and never opens the output file, touches the clipboard
\* or prints; the output file is written only after a validation that
\* returned True or when check_js is false.
C6_ValidationGate ==
    /\ (check_js /\ syntax_result = "False")
          => /\ pc \in {"mb_gate", "exited"}
             /\ pc = "exited" => exit_status = "1"
             /\ pc = "mb_gate" => exit_status = "none"
             /\ NothingDelivered
    /\ (out_opened \/ out_file # <<>>)
          => (~check_js \/ syntax_result = "True")

\* C6's case: node rejected the code and the run has ended.
C6_Witness ==
    /\ pc = "exited"
    /\ check_js
    /\ "node" \in tools
    /\ syntax_result = "False"
    /\ bookmarklet # <<>>

\* C7: a failed read or a failed write of the output ends the run with exit
\* status 1, and after a failed read nothing is validated, written, copied
\* or printed; a run whose read, validation (if requested) and write all
\* succeed ends without an exit status.
C7_FileErrors ==
    /\ read_result \in {"FileNotFoundError", "Exception"}
          => /\ pc = "exited"
             /\ exit_status = "1"
             /\ syntax_result = "none"
             /\ ~tmp_created
             /\ bookmarklet = <<>>
             /\ NothingDelivered
    /\ write_result = "Exception"
          => /\ pc = "exited"
             /\ exit_status = "1"
             /\ out_file = <<>>
    /\ (/\ read_result = "ok"
        /\ check_js => syntax_result = "True"
        /\ write_result = "ok")
          => /\ pc \in {"mb_clip", "mb_print", "mb_returned"}
             /\ exit_status = "none"

\* C7's case: the output file could not be written after a validation that
\* passed.
C7_Witness ==
    /\ write_result = "Exception"
    /\ syntax_result = "True"
    /\ pc = "exited"

LinuxTools == <<"xclip", "xsel", "wl-copy">>

\* C8: a copy that fails returns False and is never fatal: a warning is
\* logged, the output file already holds the bookmarklet, the bookmarklet is
\* printed and the run ends without an exit status; copy_to_clipboard runs at
\* most one command, on linux the first found of xclip, xsel and wl-copy, and
\* none when none is found.
C8_ClipboardNeverFatal ==
    /\ clip_result = "False"
          => /\ to_clipboard
             /\ clip_called
             /\ warnings >= 1
             /\ out_file = <<bookmarklet>>
             /\ clipboard = <<>>
             /\ exit_status = "none"
             /\ pc \in {"mb_print", "mb_returned"}
             /\ pc = "mb_returned" => stdout = <<bookmarklet>>
    /\ Len(tools_run) <= 1
    /\ (clip_called /\ platform = "linux")
          => \/ /\ \A i \in 1..3 : LinuxTools[i] \notin tools
                /\ tools_run = <<>>
             \/ \E i \in 1..3 :
                   /\ LinuxTools[i] \in tools
                   /\ \A j \in 1..(i - 1) : LinuxTools[j] \notin tools
                   /\ tools_run = <<LinuxTools[i]>>
    /\ ~clip_called => tools_run = <<>>

\* C8's case: on linux xsel, the first tool found, raised, and the run went
\* on to print the bookmarklet.
C8_Witness ==
    /\ pc = "mb_returned"
    /\ clip_result = "False"
    /\ platform = "linux"
    /\ "xclip" \notin tools
    /\ tools_run = <<"xsel">>
    /\ stdout = <<bookmarklet>>

\* C9: when check_syntax has finished, by a return or by an exception, the
\* temporary file it created no longer exists; when node is not installed no
\* temporary file is created.
C9_TempFileCleanup ==
    /\ syntax_result # "none" => ~tmp_exists
    /\ "node" \notin tools => ~tmp_created

=============================================================================
